---- MODULE Spec2Model ----
(***************************************************************************)
(* Model of examples/adwords/v201509/campaign_management/                  *)
(* add_complete_campaigns_using_batch_job.py:                              *)
(*   - GetBatchJobDownloadUrlWhenReady, the poll loop with exponential     *)
(*     backoff (specification Spec, and FairSpec for termination);         *)
(*   - the jitter term of sleep_interval over the whole range of the       *)
(*     random draw (specification JitterSpec);                             *)
(*   - BuildUploadUrlOperations and the Build*Operations functions         *)
(*     (specification BuildSpec).                                          *)
(***************************************************************************)
EXTENDS Integers, Sequences, FiniteSets, TLC

VARIABLES
  \* GetBatchJobDownloadUrlWhenReady
  pc,                 \* position in GetBatchJobDownloadUrlWhenReady
  max_poll_attempts,  \* argument
  poll_attempt,       \* local counter
  batch_job,          \* the last fetched BatchJob
  url,                \* the returned url (NoUrl until a return)
  responses,          \* history: every BatchJob GetBatchJob has returned
  sleeps,             \* history: every time.sleep: [interval, jitter]
  trace,              \* history: the observable steps, "fetch" / "sleep"
  \* the jitter term
  jpc, draw, jitter,
  \* BuildUploadUrlOperations
  bpc, number_of_campaigns, number_of_adgroups, number_of_keywords,
  next_id, issued,
  budget_operations, campaign_operations, campaign_criterion_operations,
  adgroup_operations, adgroup_criterion_operations, adgroup_ad_operations,
  operations

pollVars == <<pc, max_poll_attempts, poll_attempt, batch_job, url,
              responses, sleeps, trace>>
jitterVars == <<jpc, draw, jitter>>
buildVars == <<bpc, number_of_campaigns, number_of_adgroups,
               number_of_keywords, next_id, issued,
               budget_operations, campaign_operations,
               campaign_criterion_operations, adgroup_operations,
               adgroup_criterion_operations, adgroup_ad_operations,
               operations>>
vars == <<pollVars, jitterVars, buildVars>>

----------------------------------------------------------------------------
\* Bounds of the model
MaxBudget == 5
MaxCampaigns == 2
MaxAdGroups == 2
MaxKeywords == 2

\* Program constants
PENDING_STATUSES == {"ACTIVE", "AWAITING_FILE"}
BackoffBase == 30
RandintHigh == 10000
JitterScale == 1000

\* What a fetch can report: the statuses of a BatchJob outside the pending
\* set, and the downloadUrl entry, absent (NoUrl) or one of Urls.
TerminalStatuses == {"DONE", "CANCELED"}
Statuses == PENDING_STATUSES \cup TerminalStatuses
NoUrl == "absent"
Urls == {"L1", "L2"}
BatchJobs == [status : Statuses, downloadUrl : Urls \cup {NoUrl}]
NoJob == [status |-> "unset", downloadUrl |-> NoUrl]

\* The draws of random.randint(0, 10000), and the ones the poller is run on
RandintDraws == 0..RandintHigh
SampledDraws == {0, 999, 5000, RandintHigh}

----------------------------------------------------------------------------
\* Pure functions of the poll loop

RECURSIVE Pow2(_)
Pow2(n) == IF n = 0 THEN 1 ELSE 2 * Pow2(n - 1)

\* poll_attempt in range(max_poll_attempts)
InRange_Inclusive(i, n) == i \in 0..n
InRange(i, n) == i \in 0..(n - 1)

\* random.randint(0, 10000) / 1000, Python 2 integer division
Jitter_Scale100(d) == d \div 100
Jitter(d) == d \div JitterScale

\* 30 * (2 ** poll_attempt) + (random.randint(0, 10000) / 1000)
SleepInterval_Linear(attempt, d) == BackoffBase * (attempt + 1) + Jitter(d)
SleepInterval(attempt, d) == BackoffBase * Pow2(attempt) + Jitter(d)

\* 'downloadUrl' in batch_job
HasDownloadUrl(job) == job.downloadUrl # NoUrl

\* the while condition
LoopCondition_NoStatus ==
  InRange(poll_attempt, max_poll_attempts)
LoopCondition ==
  /\ InRange(poll_attempt, max_poll_attempts)
  /\ batch_job.status \in PENDING_STATUSES

----------------------------------------------------------------------------
\* GetBatchJobDownloadUrlWhenReady, step by step

PollInit ==
  /\ pc = "start"
  /\ max_poll_attempts \in 0..MaxBudget
  /\ poll_attempt = 0
  /\ batch_job = NoJob
  /\ url = NoUrl
  /\ responses = <<>>
  /\ sleeps = <<>>
  /\ trace = <<>>

PollIdle ==
  /\ pc = "idle"
  /\ max_poll_attempts = 0
  /\ poll_attempt = 0
  /\ batch_job = NoJob
  /\ url = NoUrl
  /\ responses = <<>>
  /\ sleeps = <<>>
  /\ trace = <<>>

\* batch_job = GetBatchJob(client, batch_job_id); poll_attempt = 0
InitialFetch ==
  /\ pc = "start"
  /\ \E job \in BatchJobs :
       /\ batch_job' = job
       /\ responses' = Append(responses, job)
  /\ poll_attempt' = 0
  /\ trace' = Append(trace, "fetch")
  /\ pc' = "loop"
  /\ UNCHANGED <<max_poll_attempts, url, sleeps>>
  /\ UNCHANGED <<jitterVars, buildVars>>

\* the while condition holds: compute sleep_interval and time.sleep
LoopSleep_NoRefetch ==
  /\ pc = "loop"
  /\ LoopCondition
  /\ \E d \in SampledDraws :
       sleeps' = Append(sleeps, [interval |-> SleepInterval(poll_attempt, d),
                                 jitter |-> Jitter(d)])
  /\ trace' = Append(trace, "sleep")
  /\ poll_attempt' = poll_attempt + 1
  /\ pc' = "loop"
  /\ UNCHANGED <<max_poll_attempts, batch_job, url, responses>>
  /\ UNCHANGED <<jitterVars, buildVars>>
LoopSleep ==
  /\ pc = "loop"
  /\ LoopCondition
  /\ \E d \in SampledDraws :
       sleeps' = Append(sleeps, [interval |-> SleepInterval(poll_attempt, d),
                                 jitter |-> Jitter(d)])
  /\ trace' = Append(trace, "sleep")
  /\ pc' = "slept"
  /\ UNCHANGED <<max_poll_attempts, poll_attempt, batch_job, url, responses>>
  /\ UNCHANGED <<jitterVars, buildVars>>

\* batch_job = GetBatchJob(...); poll_attempt += 1;
\* if 'downloadUrl' in batch_job: return batch_job['downloadUrl']['url']
LoopRefetch ==
  /\ pc = "slept"
  /\ \E job \in BatchJobs :
       /\ batch_job' = job
       /\ responses' = Append(responses, job)
       /\ IF HasDownloadUrl(job)
            THEN /\ url' = job.downloadUrl
                 /\ pc' = "returned"
            ELSE /\ url' = url
                 /\ pc' = "loop"
  /\ poll_attempt' = poll_attempt + 1
  /\ trace' = Append(trace, "fetch")
  /\ UNCHANGED <<max_poll_attempts, sleeps>>
  /\ UNCHANGED <<jitterVars, buildVars>>

\* the while condition fails: raise Exception('Batch Job not finished ...')
RaiseNotFinished ==
  /\ pc = "loop"
  /\ ~LoopCondition
  /\ pc' = "raised"
  /\ UNCHANGED <<max_poll_attempts, poll_attempt, batch_job, url,
                 responses, sleeps, trace>>
  /\ UNCHANGED <<jitterVars, buildVars>>

----------------------------------------------------------------------------
\* The jitter term over every draw of random.randint(0, 10000)

JitterInit ==
  /\ jpc = "draw"
  /\ draw \in RandintDraws
  /\ jitter = 0

JitterIdle ==
  /\ jpc = "idle"
  /\ draw = 0
  /\ jitter = 0

ComputeJitter ==
  /\ jpc = "draw"
  /\ jitter' = Jitter(draw)
  /\ jpc' = "scaled"
  /\ UNCHANGED draw
  /\ UNCHANGED <<pollVars, buildVars>>

----------------------------------------------------------------------------
\* BatchJobServiceIdGenerator (batch_job_util): temporary ids, a fresh one on
\* every GetId call; the k-th call after `first` has been reached returns
\* first + k - 1.
FirstTempId == 1
GetId(first, k) == first + k - 1

\* BatchJobHelper (batch_job_util): the raw request of a service wraps the
\* operations; ExtractOperations keeps its operations elements, in order.
GenerateRawRequestXML(ops, service) ==
  [service |-> service, mutate |-> ops]
ExtractOperations(request_xml) == request_xml.mutate

\* The builders. `first` is the id the generator issues next.
BuildBudgetOperations(first) ==
  << [xsi_type |-> "BudgetOperation",
      operand |-> [budgetId |-> GetId(first, 1),
                   deliveryMethod |-> "STANDARD",
                   period |-> "DAILY"],
      operator |-> "ADD"] >>

BuildCampaignOperations_OwnBudgetId(first, budget_ops, n) ==
  [k \in 1..n |->
     [xsi_type |-> "CampaignOperation",
      operand |-> [status |-> "PAUSED",
                   id |-> GetId(first, k),
                   budget |-> [budgetId |-> GetId(first, k)]],
      operator |-> "ADD"]]
BuildCampaignOperations(first, budget_ops, n) ==
  [k \in 1..n |->
     [xsi_type |-> "CampaignOperation",
      operand |-> [status |-> "PAUSED",
                   id |-> GetId(first, k),
                   budget |-> [budgetId |-> budget_ops[1].operand.budgetId]],
      operator |-> "ADD"]]

BuildCampaignCriterionOperations(campaign_ops) ==
  [k \in 1..Len(campaign_ops) |->
     [xsi_type |-> "CampaignCriterionOperation",
      operand |-> [xsi_type |-> "NegativeCampaignCriterion",
                   campaignId |-> campaign_ops[k].operand.id,
                   criterion |-> [xsi_type |-> "Keyword",
                                  matchType |-> "BROAD",
                                  text |-> "venus"]],
      operator |-> "ADD"]]

\* for campaign_operation in campaign_operations
\*   for _ in range(number_of_adgroups)
BuildAdGroupOperations_FreshCampaignId(first, campaign_ops, n) ==
  [k \in 1..(Len(campaign_ops) * n) |->
     [xsi_type |-> "AdGroupOperation",
      operand |-> [campaignId |-> GetId(first, k),
                   id |-> GetId(first, k)],
      operator |-> "ADD"]]
BuildAdGroupOperations(first, campaign_ops, n) ==
  [k \in 1..(Len(campaign_ops) * n) |->
     [xsi_type |-> "AdGroupOperation",
      operand |-> [campaignId |-> campaign_ops[((k - 1) \div n) + 1].operand.id,
                   id |-> GetId(first, k)],
      operator |-> "ADD"]]

\* for adgroup_operation in adgroup_operations
\*   for i in range(number_of_keywords)
\* text is 'mars%s%s' % (i, '!!!' if i % 2 == 0 else '')
BuildAdGroupCriterionOperations(adgroup_ops, n) ==
  [k \in 1..(Len(adgroup_ops) * n) |->
     [xsi_type |-> "AdGroupCriterionOperation",
      operand |-> [xsi_type |-> "BiddableAdGroupCriterion",
                   adGroupId |-> adgroup_ops[((k - 1) \div n) + 1].operand.id,
                   criterion |-> [xsi_type |-> "Keyword",
                                  text |-> <<"mars", (k - 1) % n,
                                             IF ((k - 1) % n) % 2 = 0
                                               THEN "!!!" ELSE "">>,
                                  matchType |-> "BROAD"]],
      operator |-> "ADD"]]

BuildAdGroupAdOperations(adgroup_ops) ==
  [k \in 1..Len(adgroup_ops) |->
     [xsi_type |-> "AdGroupAdOperation",
      operand |-> [adGroupId |-> adgroup_ops[k].operand.id,
                   ad |-> [xsi_type |-> "TextAd"]],
      operator |-> "ADD"]]

\* the ids GetId hands out while a builder makes n operations
IssuedBy(first, n) == [k \in 1..n |-> GetId(first, k)]

\* BuildUploadUrlOperations, one step per builder
BuildInit ==
  /\ bpc = "start"
  /\ number_of_campaigns \in 0..MaxCampaigns
  /\ number_of_adgroups \in 0..MaxAdGroups
  /\ number_of_keywords \in 0..MaxKeywords
  /\ next_id = 0
  /\ issued = <<>>
  /\ budget_operations = <<>>
  /\ campaign_operations = <<>>
  /\ campaign_criterion_operations = <<>>
  /\ adgroup_operations = <<>>
  /\ adgroup_criterion_operations = <<>>
  /\ adgroup_ad_operations = <<>>
  /\ operations = <<>>

BuildIdle ==
  /\ bpc = "idle"
  /\ number_of_campaigns = 0
  /\ number_of_adgroups = 0
  /\ number_of_keywords = 0
  /\ next_id = 0
  /\ issued = <<>>
  /\ budget_operations = <<>>
  /\ campaign_operations = <<>>
  /\ campaign_criterion_operations = <<>>
  /\ adgroup_operations = <<>>
  /\ adgroup_criterion_operations = <<>>
  /\ adgroup_ad_operations = <<>>
  /\ operations = <<>>

\* batch_id_generator = BatchJobServiceIdGenerator()
NewIdGenerator ==
  /\ bpc = "start"
  /\ next_id' = FirstTempId
  /\ bpc' = "budget"
  /\ UNCHANGED <<number_of_campaigns, number_of_adgroups, number_of_keywords,
                 issued, budget_operations, campaign_operations,
                 campaign_criterion_operations, adgroup_operations,
                 adgroup_criterion_operations, adgroup_ad_operations,
                 operations>>
  /\ UNCHANGED <<pollVars, jitterVars>>

StepBudget ==
  /\ bpc = "budget"
  /\ budget_operations' = BuildBudgetOperations(next_id)
  /\ issued' = issued \o IssuedBy(next_id, 1)
  /\ next_id' = next_id + 1
  /\ bpc' = "campaign"
  /\ UNCHANGED <<number_of_campaigns, number_of_adgroups, number_of_keywords,
                 campaign_operations,
                 campaign_criterion_operations, adgroup_operations,
                 adgroup_criterion_operations, adgroup_ad_operations,
                 operations>>
  /\ UNCHANGED <<pollVars, jitterVars>>

StepCampaign ==
  /\ bpc = "campaign"
  /\ campaign_operations' =
       BuildCampaignOperations(next_id, budget_operations,
                               number_of_campaigns)
  /\ issued' = issued \o IssuedBy(next_id, number_of_campaigns)
  /\ next_id' = next_id + number_of_campaigns
  /\ bpc' = "campaign_criterion"
  /\ UNCHANGED <<number_of_campaigns, number_of_adgroups, number_of_keywords,
                 budget_operations,
                 campaign_criterion_operations, adgroup_operations,
                 adgroup_criterion_operations, adgroup_ad_operations,
                 operations>>
  /\ UNCHANGED <<pollVars, jitterVars>>

StepCampaignCriterion ==
  /\ bpc = "campaign_criterion"
  /\ campaign_criterion_operations' =
       BuildCampaignCriterionOperations(campaign_operations)
  /\ bpc' = "adgroup"
  /\ UNCHANGED <<number_of_campaigns, number_of_adgroups, number_of_keywords,
                 next_id, issued, budget_operations, campaign_operations,
                 adgroup_operations,
                 adgroup_criterion_operations, adgroup_ad_operations,
                 operations>>
  /\ UNCHANGED <<pollVars, jitterVars>>

StepAdGroup ==
  /\ bpc = "adgroup"
  /\ adgroup_operations' =
       BuildAdGroupOperations(next_id, campaign_operations,
                              number_of_adgroups)
  /\ issued' = issued \o IssuedBy(next_id,
                                  Len(campaign_operations) * number_of_adgroups)
  /\ next_id' = next_id + Len(campaign_operations) * number_of_adgroups
  /\ bpc' = "adgroup_criterion"
  /\ UNCHANGED <<number_of_campaigns, number_of_adgroups, number_of_keywords,
                 budget_operations, campaign_operations,
                 campaign_criterion_operations,
                 adgroup_criterion_operations, adgroup_ad_operations,
                 operations>>
  /\ UNCHANGED <<pollVars, jitterVars>>

StepAdGroupCriterion ==
  /\ bpc = "adgroup_criterion"
  /\ adgroup_criterion_operations' =
       BuildAdGroupCriterionOperations(adgroup_operations,
                                       number_of_keywords)
  /\ bpc' = "adgroup_ad"
  /\ UNCHANGED <<number_of_campaigns, number_of_adgroups, number_of_keywords,
                 next_id, issued, budget_operations, campaign_operations,
                 campaign_criterion_operations, adgroup_operations,
                 adgroup_ad_operations, operations>>
  /\ UNCHANGED <<pollVars, jitterVars>>

StepAdGroupAd ==
  /\ bpc = "adgroup_ad"
  /\ adgroup_ad_operations' = BuildAdGroupAdOperations(adgroup_operations)
  /\ bpc' = "return"
  /\ UNCHANGED <<number_of_campaigns, number_of_adgroups, number_of_keywords,
                 next_id, issued, budget_operations, campaign_operations,
                 campaign_criterion_operations, adgroup_operations,
                 adgroup_criterion_operations, operations>>
  /\ UNCHANGED <<pollVars, jitterVars>>

\* return (budget_operations_xml, campaign_operations_xml, ...)
ReturnOperations ==
  /\ bpc = "return"
  /\ operations' =
       << ExtractOperations(GenerateRawRequestXML(
            budget_operations, "BudgetService")),
          ExtractOperations(GenerateRawRequestXML(
            campaign_operations, "CampaignService")),
          ExtractOperations(GenerateRawRequestXML(
            campaign_criterion_operations, "CampaignCriterionService")),
          ExtractOperations(GenerateRawRequestXML(
            adgroup_operations, "AdGroupService")),
          ExtractOperations(GenerateRawRequestXML(
            adgroup_criterion_operations, "AdGroupCriterionService")),
          ExtractOperations(GenerateRawRequestXML(
            adgroup_ad_operations, "AdGroupAdService")) >>
  /\ bpc' = "done"
  /\ UNCHANGED <<number_of_campaigns, number_of_adgroups, number_of_keywords,
                 next_id, issued, budget_operations, campaign_operations,
                 campaign_criterion_operations, adgroup_operations,
                 adgroup_criterion_operations, adgroup_ad_operations>>
  /\ UNCHANGED <<pollVars, jitterVars>>

----------------------------------------------------------------------------
Init == PollInit /\ JitterIdle /\ BuildIdle
Next ==
  \/ InitialFetch
  \/ LoopSleep
  \/ LoopRefetch
  \/ RaiseNotFinished
Spec == Init /\ [][Next]_vars
FairSpec == Init /\ [][Next]_vars /\ WF_vars(Next)

JitterNext == ComputeJitter
JitterStart == PollIdle /\ JitterInit /\ BuildIdle
JitterSpec == JitterStart /\ [][JitterNext]_vars

BuildStart == PollIdle /\ JitterIdle /\ BuildInit
BuildNext ==
  \/ NewIdGenerator
  \/ StepBudget
  \/ StepCampaign
  \/ StepCampaignCriterion
  \/ StepAdGroup
  \/ StepAdGroupCriterion
  \/ StepAdGroupAd
  \/ ReturnOperations
BuildSpec == BuildStart /\ [][BuildNext]_vars

----------------------------------------------------------------------------
\* Properties of GetBatchJobDownloadUrlWhenReady

Terminated == pc \in {"returned", "raised"}
Fetches == Len(responses)
Pending(job) == job.status \in PENDING_STATUSES
PendingNoUrl(job) == Pending(job) /\ ~HasDownloadUrl(job)
ReadyWithUrl(job) == ~Pending(job) /\ HasDownloadUrl(job)

\* the stub of the first testable property: pending without a location on
\* calls 1..N-1, non-pending with a location on call N
StubReadyAt(N) ==
  /\ Len(responses) >= N
  /\ \A i \in 1..(N - 1) : PendingNoUrl(responses[i])
  /\ ReadyWithUrl(responses[N])

\* C1: for every N >= 1 and every budget large enough (here: at least N),
\* when the fetch stub is pending without location on calls 1..N-1 and
\* non-pending with location L on call N, the poller ends by returning L
\* after exactly N fetches.
C1_ReadyAtNReturnsL ==
  \A N \in 1..(MaxBudget + 1) :
    (StubReadyAt(N) /\ max_poll_attempts >= N /\ Terminated)
      => /\ pc = "returned"
         /\ url = responses[N].downloadUrl
         /\ Fetches = N

\* C2: when every fetch is pending without a location, the poller fails
\* with the timeout error after exactly max_poll_attempts fetches in total.
C2_TimeoutAfterBudgetFetches ==
  (pc = "raised" /\ \A i \in 1..Len(responses) : PendingNoUrl(responses[i]))
    => Fetches = max_poll_attempts

\* C3: whenever a location is returned, the most recent fetch reported a
\* status outside the pending set, carried a location, and the returned
\* value is that location.
C3_ReturnedOnlyWhenNotPending ==
  pc = "returned"
    => /\ ~Pending(responses[Len(responses)])
       /\ HasDownloadUrl(responses[Len(responses)])
       /\ url = responses[Len(responses)].downloadUrl

\* C4: when the initial fetch reports a status outside the pending set, the
\* poller fails with the timeout error after that single fetch, without a
\* sleep or a re-fetch, whatever the budget and whether or not the fetch
\* carried a location.
FirstFetchTerminal == Len(responses) >= 1 /\ ~Pending(responses[1])
C5_RaisedOnlyWhenBudgetExhausted ==
  pc = "raised" => poll_attempt = max_poll_attempts

\* C7: the i-th sleep (i from 0) has non-jittered component 30 * 2^i, and
\* each sleep is strictly longer than the one before it whatever the jitter.
C7_ExponentialBackoff ==
  /\ \A k \in 1..Len(sleeps) :
       sleeps[k].interval - sleeps[k].jitter = BackoffBase * Pow2(k - 1)
  /\ \A k \in 2..Len(sleeps) :
       sleeps[k].interval > sleeps[k - 1].interval
  /\ pc = "slept" => Len(sleeps) = poll_attempt + 1
  /\ pc # "slept" => Len(sleeps) = poll_attempt
C7_Witness ==
  /\ Len(sleeps) >= 3
  /\ sleeps[2].jitter = Jitter(RandintHigh)
  /\ sleeps[3].jitter = 0

\* C8: for every budget and fetch behaviour the poller terminates, with
\* exactly one outcome (a returned location or the timeout error), after at
\* most max_poll_attempts + 1 fetches and max_poll_attempts sleeps;
\* poll_attempt stays within 0..max_poll_attempts.
C8_BoundedTermination ==
  /\ [](/\ poll_attempt \in 0..max_poll_attempts
        /\ Fetches <= max_poll_attempts + 1
        /\ Len(sleeps) <= max_poll_attempts
        /\ (pc = "returned") <=> (url # NoUrl)
        /\ (pc = "raised") => (url = NoUrl))
  /\ [][Terminated => UNCHANGED vars]_vars
  /\ <>Terminated
C8_Witness ==
  /\ pc = "raised"
  /\ max_poll_attempts = MaxBudget
  /\ Fetches = max_poll_attempts + 1
  /\ Len(sleeps) = max_poll_attempts

\* C9: the observable steps strictly alternate fetch, sleep, fetch, ...,
\* beginning and ending with a fetch: odd positions of the trace are
\* fetches, even positions sleeps, a sleep is last only while its re-fetch
\* is pending, and at termination sleeps = fetches - 1.
C9_FetchSleepAlternate ==
  /\ \A k \in 1..Len(trace) :
       trace[k] = (IF k % 2 = 1 THEN "fetch" ELSE "sleep")
  /\ (Len(trace) > 0 /\ trace[Len(trace)] = "sleep") <=> (pc = "slept")
  /\ Len(trace) = Fetches + Len(sleeps)
  /\ (pc = "start") <=> (trace = <<>>)
  /\ Terminated => /\ trace[Len(trace)] = "fetch"
                   /\ Len(sleeps) = Fetches - 1
C9_Witness ==
  /\ pc = "returned"
  /\ trace = <<"fetch", "sleep", "fetch", "sleep", "fetch">>

----------------------------------------------------------------------------
\* The jitter term

\* C6 as stated: the jitter term lies in [0, 10).
C6_JitterBelowTen ==
  jpc = "scaled" => (jitter >= 0 /\ jitter < 10)

\* C6: the jitter term of every draw of randint(0, 10000) lies in the
\* closed interval [0, 10], and is 10 exactly for the draw 10000.
C6_JitterAtMostTen ==
  jpc = "scaled" => /\ jitter >= 0
                    /\ jitter <= 10
                    /\ (jitter = 10) <=> (draw = RandintHigh)
C6_Witness == jpc = "scaled" /\ draw = RandintHigh /\ jitter = 10

----------------------------------------------------------------------------
\* BuildUploadUrlOperations

OperandIds(ops) == {ops[k].operand.id : k \in 1..Len(ops)}
\* the operations of the groups before position g of the returned tuple
\* whose temporary id is `id`
ParentsBefore(g, id) ==
  {<<h, k>> \in UNION {{h} \X (1..Len(operations[h])) : h \in 1..(g - 1)} :
     IF h = 1 THEN operations[h][k].operand.budgetId = id
     ELSE IF h \in {2, 4} THEN operations[h][k].operand.id = id
     ELSE FALSE}

\* C10: with a generator that never repeats an id, the built operations are
\* referentially closed and parent-first: a campaign's budgetId is the
\* budget operation's, a campaignId is a built campaign's id, an adGroupId
\* a built ad group's id, and in the returned tuple each reference resolves
\* to exactly one operation, of the right kind, in an earlier group.
C10_ReferentiallyClosedParentFirst ==
  /\ \A a, b \in 1..Len(issued) : a # b => issued[a] # issued[b]
  /\ bpc \notin {"start", "budget", "idle"} => Len(budget_operations) = 1
  /\ \A k \in 1..Len(campaign_operations) :
       campaign_operations[k].operand.budget.budgetId
         = budget_operations[1].operand.budgetId
  /\ \A k \in 1..Len(campaign_criterion_operations) :
       campaign_criterion_operations[k].operand.campaignId
         \in OperandIds(campaign_operations)
  /\ \A k \in 1..Len(adgroup_operations) :
       adgroup_operations[k].operand.campaignId
         \in OperandIds(campaign_operations)
  /\ \A k \in 1..Len(adgroup_criterion_operations) :
       adgroup_criterion_operations[k].operand.adGroupId
         \in OperandIds(adgroup_operations)
  /\ \A k \in 1..Len(adgroup_ad_operations) :
       adgroup_ad_operations[k].operand.adGroupId
         \in OperandIds(adgroup_operations)
  /\ bpc = "done" =>
       /\ Len(operations) = 6
       /\ \A k \in 1..Len(operations[2]) :
            /\ operations[2][k].xsi_type = "CampaignOperation"
            /\ ParentsBefore(2, operations[2][k].operand.budget.budgetId)
                 = {<<1, 1>>}
       /\ \A g \in {3, 4} : \A k \in 1..Len(operations[g]) :
            \E p \in 1..Len(operations[2]) :
              ParentsBefore(g, operations[g][k].operand.campaignId)
                = {<<2, p>>}
       /\ \A g \in {5, 6} : \A k \in 1..Len(operations[g]) :
            \E p \in 1..Len(operations[4]) :
              ParentsBefore(g, operations[g][k].operand.adGroupId)
                = {<<4, p>>}
C10_Witness ==
  /\ bpc = "done"
  /\ number_of_campaigns = 2
  /\ number_of_adgroups = 2
  /\ number_of_keywords = 2
  /\ Len(operations[4]) = 4
  /\ Len(operations[5]) = 8
  /\ operations[4][3].operand.campaignId = operations[2][2].operand.id

====
